---- MODULE Spec2Model ----
(***************************************************************************)
(* Model of the t-rex GDAL datasource (t-rex-gdal/src/gdal_ds.rs) and of   *)
(* the tile route of the web server (src/webserver/server.rs).             *)
(*                                                                         *)
(* Rust values are represented as follows.                                 *)
(*   Option<T>      : <<>> for None, <<v>> for Some(v)                     *)
(*   Result / panic : a record [tag |-> "Ok" | "Err" | "Panic", v |-> ...]  *)
(*   enum variant   : a record [tag |-> variant name, v |-> payload]       *)
(*   (x, y, z)      : the tuple <<x, y, z>>                                *)
(*   u64            : four 16-bit limbs, least significant first           *)
(***************************************************************************)
EXTENDS Integers, Sequences, FiniteSets, TLC

VARIABLES
    layer,        \* VectorFeature.layer : the configured Layer
    fields_defn,  \* VectorFeature.fields_defn : names of the schema's fields
    feature,      \* VectorFeature.feature : the backing OGR record
    result,       \* the value of the method called on the VectorFeature
    lastTile,     \* the arguments of the latest service.tile call, if any
    response,     \* how the latest request on the tile route ended
    served,       \* the number of requests the tile route has handled
    layers,       \* the layers of the requested tile, in the order they are fetched
    tables,       \* the dataset at GdalDatasource.path: table name -> its records
    openable,     \* whether Dataset::open succeeds on GdalDatasource.path
    extent,       \* the extent of the requested tile
    zoom,         \* the zoom of the requested tile
    handles,      \* every Dataset opened so far: who opened it, its read cursor
    pc,           \* per thread: where its tile request stands
    li,           \* per thread: the index of the layer being fetched
    dataset,      \* per thread: the handle the running retrieve_features holds
    invoked,      \* per thread and layer: the records passed to the callback
    tile,         \* per thread and layer: the features the callback kept
    panicked      \* per thread: the panic that unwound it, if any

featVars == <<layer, fields_defn, feature, result>>
srvVars == <<lastTile, response, served>>
dsVars == <<layers, tables, openable, extent, zoom>>
retVars == <<handles, pc, li, dataset, invoked, tile, panicked>>

----------------------------------------------------------------------------
(* Bounds of the model *)

MaxPts == 2      \* points of a native linestring
MaxParts == 2    \* children of a native multi-geometry or polygon
MaxFields == 2   \* fields of a record
MaxRequests == 2 \* requests on the tile route
MaxRecords == 2  \* records of a table
MaxZoom == 1     \* zoom levels
NumThreads == 2  \* concurrent tile requests

SeqsUpTo(S, n) == UNION {[1..k -> S] : k \in 0..n}

None == <<>>
Some(v) == <<v>>

----------------------------------------------------------------------------
(* The OGR geometry handed to the adapter: its kind tag, its own points    *)
(* and its child sub-geometries.                                           *)

Coords == {<<1, 2, 0>>, <<3, 4, 5>>}

NativeGeom(kind, pts, subs) == [kind |-> kind, pts |-> pts, subs |-> subs]

NativePoints == {NativeGeom("WkbPoint", <<c>>, <<>>) : c \in Coords}

NativeLines == {NativeGeom("WkbLinestring", p, <<>>) : p \in SeqsUpTo(Coords, MaxPts)}

NativeOthers ==
    {NativeGeom("WkbGeometrycollection", <<>>, <<>>),
     NativeGeom("WkbGeometrycollection", <<>>,
                <<NativeGeom("WkbPoint", <<(<<1, 2, 0>>)>>, <<>>)>>),
     NativeGeom("WkbUnknown", <<>>, <<>>)}

NativeSimple == NativePoints \cup NativeLines \cup NativeOthers

NativeMulti(kind, S) == {NativeGeom(kind, <<>>, s) : s \in SeqsUpTo(S, MaxParts)}

\* a closed ring and an open one
RingClosed == NativeGeom("WkbLinestring", <<(<<1, 2, 0>>), <<3, 4, 5>>, <<1, 2, 0>>>>, <<>>)
RingOpen == NativeGeom("WkbLinestring", <<(<<3, 4, 5>>), <<1, 2, 0>>>>, <<>>)

\* the children a multipolygon is built from: polygons with no ring, an
\* exterior ring, an exterior ring and a hole, a ring of the wrong kind, and
\* a child of the wrong kind
PolygonSamples ==
    {NativeGeom("WkbPolygon", <<>>, <<>>),
     NativeGeom("WkbPolygon", <<>>, <<RingClosed>>),
     NativeGeom("WkbPolygon", <<>>, <<RingClosed, RingOpen>>),
     NativeGeom("WkbPolygon", <<>>, <<RingClosed, NativeGeom("WkbPoint", <<(<<3, 4, 5>>)>>, <<>>)>>),
     RingOpen}

\* every parent is built from children of the kind it requires and from
\* some of another kind
NativeGeoms ==
    NativeSimple
    \cup NativeMulti("WkbMultipoint", NativePoints \cup {RingOpen})
    \cup NativeMulti("WkbMultilinestring", NativeLines \cup NativePoints)
    \cup NativeMulti("WkbPolygon", NativeLines \cup NativeOthers)
    \cup NativeMulti("WkbMultipolygon", PolygonSamples)

geometry_type(g) == g.kind
geometry_count(g) == Len(g.subs)
_get_geometry(g, n) == g.subs[n + 1]
get_point(g, i) == g.pts[i + 1]
get_point_vec(g) == g.pts

----------------------------------------------------------------------------
(* ToGeo::to_geo *)

Panic(msg) == [tag |-> "Panic", v |-> msg]
Ok(v) == [tag |-> "Ok", v |-> v]

\* geom::Point { x: x, y: y, srid: srid }
Point(x, y, srid) == [x |-> x, y |-> y, srid |-> srid]

\* a coordinate vector read back to front
LinePointsReversed(self, srid) ==
    LET v == get_point_vec(self)
    IN  [i \in 1..Len(v) |-> Point(v[Len(v) + 1 - i][1], v[Len(v) + 1 - i][2], srid)]

\* get_point_vec().iter().map(|&(x, y, _)| Point {..}).collect()
LinePoints(self, srid) ==
    LET v == get_point_vec(self)
    IN  [i \in 1..Len(v) |-> Point(v[i][1], v[i][2], srid)]

RECURSIVE to_geo(_, _)

\* (0..count).map(|n| match _get_geometry(n).to_geo(srid) { expect(x) => x,
\*                                                          _ => panic!(msg) }).collect()
\* The children are converted in order; the first one that panics, or that is
\* not the expected variant, ends the conversion.
CollectChildren(self, srid, expect, msg) ==
    LET rs == [n \in 1..geometry_count(self) |-> to_geo(_get_geometry(self, n - 1), srid)]
        bad == {n \in 1..geometry_count(self) : rs[n].tag # expect}
    IN  IF bad = {}
        THEN Ok([n \in 1..geometry_count(self) |-> rs[n].v])
        ELSE LET m == CHOOSE n \in bad : \A k \in bad : n <= k
             IN  IF rs[m].tag = "Panic" THEN rs[m] ELSE Panic(msg)

to_geo(self, srid) ==
    CASE geometry_type(self) = "WkbPoint" ->
            LET p == get_point(self, 0)
            IN  [tag |-> "Point", v |-> Point(p[1], p[2], srid)]
      [] geometry_type(self) = "WkbMultipoint" ->
            LET coords == CollectChildren(self, srid, "Point", "Expected to get a Point")
            IN  IF coords.tag = "Panic" THEN coords
                ELSE [tag |-> "MultiPoint", v |-> [points |-> coords.v, srid |-> srid]]
      [] geometry_type(self) = "WkbLinestring" ->
            [tag |-> "LineString", v |-> [points |-> LinePoints(self, srid), srid |-> srid]]
      [] geometry_type(self) = "WkbMultilinestring" ->
            LET strings == CollectChildren(self, srid, "LineString",
                                           "Expected to get a LineString")
            IN  IF strings.tag = "Panic" THEN strings
                ELSE [tag |-> "MultiLineString", v |-> [lines |-> strings.v, srid |-> srid]]
      [] geometry_type(self) = "WkbPolygon" ->
            LET rings == CollectChildren(self, srid, "LineString",
                                         "Expected to get a LineString")
            IN  IF rings.tag = "Panic" THEN rings
                ELSE [tag |-> "Polygon", v |-> [rings |-> rings.v, srid |-> srid]]
      [] geometry_type(self) = "WkbMultipolygon" ->
            LET strings == CollectChildren(self, srid, "Polygon",
                                           "Expected to get a Polygon")
            IN  IF strings.tag = "Panic" THEN strings
                ELSE [tag |-> "MultiPolygon", v |-> [polygons |-> strings.v, srid |-> srid]]
      [] OTHER -> Panic("Unknown geometry type")

----------------------------------------------------------------------------
(* VectorFeature *)

SRIDs == {None, Some(3857)}

\* VectorFeature::geometry: Ok(ogrgeom.to_geo(self.layer.srid)); a panic of
\* to_geo unwinds through it.
geometry(l, f) ==
    LET g == to_geo(f.geom, l.srid)
    IN  IF g.tag = "Panic" THEN g ELSE Ok(g)

----------------------------------------------------------------------------
(* Field values of the backing record *)

\* 64-bit values are kept as four 16-bit limbs, least significant first
LimbBase == 65536

\* the 64-bit two's-complement pattern of the i32 v, sign-extended: what
\* both `v as u64` and `v as i64` produce
SignExtend64(v) ==
    <<v % LimbBase,
      (v \div LimbBase) % LimbBase,
      ((v \div LimbBase) \div LimbBase) % LimbBase,
      ((v \div LimbBase) \div LimbBase) % LimbBase>>

as_u64(v) == SignExtend64(v)
as_i64(v) == SignExtend64(v)

Int32Samples == {-2147483647 - 1, -1, 0, 7, 2147483647}

RawValues ==
    {[type |-> "OFTString", str |-> "a"]}
    \cup {[type |-> "OFTInteger", int |-> i] : i \in Int32Samples}
    \cup {[type |-> "OFTReal", real |-> [num |-> 3, den |-> 2]]}
    \cup {[type |-> "OFTDate", date |-> "2017-01-01"]}

FieldNames == {"id", "name"}

Err(e) == [tag |-> "Err", v |-> e]

\* gdal's Feature::field(name): the value of the first field of that name,
\* an error when there is none or when its OGR type has no FieldValue
field(f, name) ==
    LET idx == {i \in 1..Len(f.fields) : f.fields[i].name = name}
    IN  IF idx = {} THEN Err("InvalidFieldName")
        ELSE LET raw == f.fields[CHOOSE i \in idx : \A k \in idx : i <= k].raw
             IN  CASE raw.type = "OFTString" -> Ok([tag |-> "StringValue", v |-> raw.str])
                   [] raw.type = "OFTInteger" -> Ok([tag |-> "IntegerValue", v |-> raw.int])
                   [] raw.type = "OFTReal" -> Ok([tag |-> "RealValue", v |-> raw.real])
                   [] OTHER -> Err("UnhandledFieldType")

\* a fid that gives up on negative values
fid_nonneg(l, f) ==
    IF l.fid_field = None THEN None
    ELSE LET field_value == field(f, l.fid_field[1])
         IN  IF /\ field_value.tag = "Ok"
                /\ field_value.v.tag = "IntegerValue"
                /\ field_value.v.v >= 0
             THEN Some(as_u64(field_value.v.v))
             ELSE None

\* VectorFeature::fid
fid(l, f) ==
    IF l.fid_field = None THEN None
    ELSE LET field_value == field(f, l.fid_field[1])
         IN  IF field_value.tag = "Ok" /\ field_value.v.tag = "IntegerValue"
             THEN Some(as_u64(field_value.v.v))
             ELSE None

\* a mapping of field values that has no arm for integers
attr_val_no_int(field_value) ==
    IF field_value.tag = "Ok" /\ field_value.v.tag # "IntegerValue"
    THEN Some([tag |-> (IF field_value.v.tag = "StringValue" THEN "String" ELSE "Double"),
               v |-> field_value.v.v])
    ELSE None

\* the match of VectorFeature::attributes on the value read
attr_val(field_value) ==
    IF field_value.tag = "Ok"
    THEN CASE field_value.v.tag = "StringValue" ->
                Some([tag |-> "String", v |-> field_value.v.v])
           [] field_value.v.tag = "IntegerValue" ->
                Some([tag |-> "Int", v |-> as_i64(field_value.v.v)])
           [] field_value.v.tag = "RealValue" ->
                Some([tag |-> "Double", v |-> field_value.v.v])
    ELSE None  \* warn!("Layer '{}' - skipping field '{}': {}")

\* the loop of VectorFeature::attributes from the i-th field on
RECURSIVE attributes_from(_, _, _, _)
attributes_from(defn, f, i, attrs) ==
    IF i > Len(defn) THEN attrs
    ELSE LET val == attr_val(field(f, defn[i]))
         IN  attributes_from(defn, f, i + 1,
                 IF val # None
                 THEN Append(attrs, [key |-> defn[i], value |-> val[1]])
                 ELSE attrs)

\* VectorFeature::attributes
attributes(defn, f) == attributes_from(defn, f, 1, <<>>)

----------------------------------------------------------------------------
(* The tile route of the web server *)

Digits == <<"0", "1", "2", "3", "4", "5", "6", "7", "8", "9">>

IsDigit(c) == \E d \in 1..10 : Digits[d] = c
DigitValue(c) == (CHOOSE d \in 1..10 : Digits[d] = c) - 1

RECURSIVE DecimalValue(_)
DecimalValue(s) ==
    IF s = <<>> THEN 0
    ELSE 10 * DecimalValue(SubSeq(s, 1, Len(s) - 1)) + DigitValue(s[Len(s)])

\* str::parse::<u16>: an optional "+", then one or more decimal digits whose
\* value fits 16 bits
parse_u16(s) ==
    LET digits == IF s # <<>> /\ s[1] = "+" THEN Tail(s) ELSE s
    IN  IF digits = <<>> THEN Err("Empty")
        ELSE IF \E i \in 1..Len(digits) : ~IsDigit(digits[i]) THEN Err("InvalidDigit")
        ELSE IF Len(digits) > 5 \/ DecimalValue(digits) > 65535 THEN Err("Overflow")
        ELSE Ok(DecimalValue(digits))

\* the path segments a request may carry for :z, :x and :y
ParamSamples ==
    {<<"0">>, <<"1">>, <<"2">>, <<"3">>, <<"4">>, <<"+", "1">>, <<"0", "0", "7">>,
     <<"-", "1">>, <<"x">>, <<"6", "5", "5", "3", "6">>}

Requests == [topic : {"roads"}, z : ParamSamples, x : ParamSamples, y : ParamSamples]

\* the handler of server.get("/:topic/:z/:x/:y.pbf"): the three unwraps of the
\* parsed parameters, then service.tile(topic, x, y, z)
TileRoute ==
    /\ served < MaxRequests
    /\ \E r \in Requests :
          LET z == parse_u16(r.z)
              x == parse_u16(r.x)
              y == parse_u16(r.y)
          IN  IF z.tag = "Err" \/ x.tag = "Err" \/ y.tag = "Err"
              THEN /\ response' = "panic"
                   /\ UNCHANGED lastTile
              ELSE /\ lastTile' = Some([topic |-> r.topic, x |-> x.v, y |-> y.v, z |-> z.v])
                   /\ response' = "tile"
    /\ served' = served + 1
    /\ UNCHANGED <<featVars, dsVars, retVars>>

\* the server has handled no request
InitServer ==
    /\ lastTile = None
    /\ response = "none"
    /\ served = 0

NoCall == [method |-> "none"]

Geometry ==
    /\ result = NoCall
    /\ result' = [method |-> "geometry", ret |-> geometry(layer, feature)]
    /\ UNCHANGED <<layer, fields_defn, feature>>
    /\ UNCHANGED <<srvVars, dsVars, retVars>>

MkLayer(name, table_name, srid, fid_field, minzoom, maxzoom) ==
    [name |-> name, table_name |-> table_name, srid |-> srid,
     fid_field |-> fid_field, minzoom |-> minzoom, maxzoom |-> maxzoom]

Fid ==
    /\ result = NoCall
    /\ result' = [method |-> "fid", ret |-> fid(layer, feature)]
    /\ UNCHANGED <<layer, fields_defn, feature>>
    /\ UNCHANGED <<srvVars, dsVars, retVars>>

Attributes ==
    /\ result = NoCall
    /\ result' = [method |-> "attributes", ret |-> attributes(fields_defn, feature)]
    /\ UNCHANGED <<layer, fields_defn, feature>>
    /\ UNCHANGED <<srvVars, dsVars, retVars>>

\* ogr_layer.defn().fields(): the schema's fields, in schema order
SchemaOf(f) == [i \in 1..Len(f.fields) |-> f.fields[i].name]

----------------------------------------------------------------------------
(* GdalDatasource::retrieve_features, called for each layer of a tile *)

Threads == 1..NumThreads

TableNames == {"ta", "tb"}

PointInside == NativeGeom("WkbPoint", <<(<<1, 2, 0>>)>>, <<>>)
PointOutside == NativeGeom("WkbPoint", <<(<<3, 4, 5>>)>>, <<>>)
CollectionInside == NativeGeom("WkbGeometrycollection", <<>>, <<PointInside>>)

RecordSamples == {[geom |-> g, fields |-> <<>>] :
                    g \in {PointInside, PointOutside, CollectionInside}}

TileExtent == [minx |-> 0, miny |-> 0, maxx |-> 2, maxy |-> 2]

\* a Dataset::open that hands out a handle already open, when there is one
DatasetOpenShared(hs, t, call) ==
    LET open == {h \in 1..Len(hs) : hs[h].open}
    IN  IF open = {}
        THEN [handles |-> Append(hs, [opener |-> t, call |-> call, open |-> TRUE,
                                      table |-> "", cursor |-> 0]),
              id |-> Len(hs) + 1]
        ELSE [handles |-> hs, id |-> CHOOSE h \in open : \A k \in open : h <= k]

\* Dataset::open(Path::new(&self.path)): a new handle, owned by the call
DatasetOpen(hs, t, call) ==
    [handles |-> Append(hs, [opener |-> t, call |-> call, open |-> TRUE,
                             table |-> "", cursor |-> 0]),
     id |-> Len(hs) + 1]

\* the Dataset goes out of scope
DatasetDrop(hs, h) == [hs EXCEPT ![h].open = FALSE]

\* a panic unwinds the thread of the request
Unwind(t, site, msg) ==
    /\ pc' = [pc EXCEPT ![t] = "panicked"]
    /\ panicked' = [panicked EXCEPT ![t] = Some([site |-> site, msg |-> msg])]
    /\ dataset' = [dataset EXCEPT ![t] = 0]

\* the callback the tile service passes as `read`: it converts the feature
\* and keeps it in the tile's layer; a feature whose geometry() is an error
\* is dropped
on_feature(tl, l, defn, f) ==
    LET g == geometry(l, f)
    IN  CASE g.tag = "Panic" -> g
          [] g.tag = "Ok" -> Ok(Append(tl, [id |-> fid(l, f),
                                            tags |-> attributes(defn, f),
                                            geom_type |-> g.v.tag]))
          [] OTHER -> Ok(tl)

\* retrieve_features up to its loop: open the dataset, look the layer up
RetrieveOpen(t) ==
    /\ pc[t] = "fetch"
    /\ invoked' = [invoked EXCEPT ![t][li[t]] = Some(<<>>)]
    /\ IF ~openable
       THEN /\ Unwind(t, "Dataset::open", "unwrap on an Err value")
            /\ UNCHANGED handles
       ELSE LET o == DatasetOpen(handles, t, li[t])
                l == layers[li[t]]
            IN  IF l.table_name = None
                THEN /\ Unwind(t, "table_name", "unwrap on a None value")
                     /\ handles' = DatasetDrop(o.handles, o.id)
                ELSE IF l.table_name[1] \notin DOMAIN tables
                THEN /\ Unwind(t, "layer_by_name",
                               "unwrap on an Err value")
                     /\ handles' = DatasetDrop(o.handles, o.id)
                ELSE /\ handles' = [o.handles EXCEPT ![o.id].table = l.table_name[1]]
                     /\ dataset' = [dataset EXCEPT ![t] = o.id]
                     /\ pc' = [pc EXCEPT ![t] = "features"]
                     /\ UNCHANGED panicked
    /\ UNCHANGED <<li, tile>>
    /\ UNCHANGED <<featVars, srvVars, dsVars>>

\* one turn of `for feature in ogr_layer.features()`: the next record of the
\* handle's cursor is wrapped in a VectorFeature and passed to the callback
RetrieveFeature(t) ==
    /\ pc[t] = "features"
    /\ LET h == dataset[t]
           recs == tables[handles[h].table]
       IN  /\ handles[h].cursor < Len(recs)
           /\ LET f == recs[handles[h].cursor + 1]
                  r == on_feature(tile[t][li[t]], layers[li[t]], SchemaOf(f), f)
              IN  /\ invoked' = [invoked EXCEPT ![t][li[t]] = Some(Append(@[1], f))]
                  /\ IF r.tag = "Panic"
                     THEN /\ Unwind(t, "read", r.v)
                          /\ handles' = DatasetDrop(handles, h)
                          /\ UNCHANGED tile
                     ELSE /\ handles' = [handles EXCEPT ![h].cursor = @ + 1]
                          /\ tile' = [tile EXCEPT ![t][li[t]] = r.v]
                          /\ UNCHANGED <<pc, dataset, panicked>>
    /\ UNCHANGED li
    /\ UNCHANGED <<featVars, srvVars, dsVars>>

\* the loop is over: retrieve_features returns and the service goes on to the
\* next layer of the tile
RetrieveReturn(t) ==
    /\ pc[t] = "features"
    /\ handles[dataset[t]].cursor >= Len(tables[handles[dataset[t]].table])
    /\ handles' = DatasetDrop(handles, dataset[t])
    /\ dataset' = [dataset EXCEPT ![t] = 0]
    /\ IF li[t] < Len(layers)
       THEN /\ li' = [li EXCEPT ![t] = @ + 1]
            /\ pc' = [pc EXCEPT ![t] = "fetch"]
       ELSE /\ pc' = [pc EXCEPT ![t] = "done"]
            /\ UNCHANGED li
    /\ UNCHANGED <<invoked, tile, panicked>>
    /\ UNCHANGED <<featVars, srvVars, dsVars>>

Retrieve == \E t \in Threads : RetrieveOpen(t) \/ RetrieveFeature(t) \/ RetrieveReturn(t)

----------------------------------------------------------------------------
(* Initial states and specifications *)

Records ==
    {[geom |-> PointInside, fields |-> fs] :
        fs \in SeqsUpTo([name : FieldNames, raw : RawValues], MaxFields)}

\* no VectorFeature is under test
InitNoFeature ==
    /\ layer = MkLayer("A", Some("ta"), None, None, 0, 0)
    /\ fields_defn = <<>>
    /\ feature = [geom |-> PointInside, fields |-> <<>>]
    /\ result = NoCall

\* no tile is being fetched
InitNoRetrieve ==
    /\ layers = <<>>
    /\ tables = <<>>
    /\ openable = TRUE
    /\ extent = TileExtent
    /\ zoom = 0
    /\ handles = <<>>
    /\ pc = [t \in Threads |-> "idle"]
    /\ li = [t \in Threads |-> 1]
    /\ dataset = [t \in Threads |-> 0]
    /\ invoked = [t \in Threads |-> <<>>]
    /\ tile = [t \in Threads |-> <<>>]
    /\ panicked = [t \in Threads |-> None]

InitAttr ==
    /\ layer \in {MkLayer("A", Some("ta"), None, fidf, 0, 0) :
                    fidf \in {None, Some("id"), Some("gid")}}
    /\ feature \in Records
    /\ fields_defn = SchemaOf(feature)
    /\ result = NoCall
    /\ InitServer
    /\ InitNoRetrieve

InitGeo ==
    /\ layer \in {MkLayer("A", Some("ta"), s, None, 0, 0) : s \in SRIDs}
    /\ fields_defn = <<>>
    /\ feature \in {[geom |-> g, fields |-> <<>>] : g \in NativeGeoms}
    /\ result = NoCall
    /\ InitServer
    /\ InitNoRetrieve

InitRoute == InitNoFeature /\ InitServer /\ InitNoRetrieve

ZoomRanges == {r \in (0..MaxZoom) \X (0..MaxZoom) : r[1] <= r[2]}

\* the threads of `active` each start a tile request over the same layers
InitThreads(active) ==
    /\ handles = <<>>
    /\ pc = [t \in Threads |-> IF t \in active THEN "fetch" ELSE "idle"]
    /\ li = [t \in Threads |-> 1]
    /\ dataset = [t \in Threads |-> 0]
    /\ invoked = [t \in Threads |-> [i \in 1..Len(layers) |-> None]]
    /\ tile = [t \in Threads |-> [i \in 1..Len(layers) |-> <<>>]]
    /\ panicked = [t \in Threads |-> None]

\* one tile request over two layers, on any dataset
InitRetrieve ==
    /\ InitNoFeature
    /\ InitServer
    /\ layers \in {<<MkLayer("A", ta, Some(3857), None, ra[1], ra[2]),
                     MkLayer("B", Some("tb"), Some(3857), None, rb[1], rb[2])>> :
                      ta \in {None, Some("ta")}, ra \in ZoomRanges, rb \in ZoomRanges}
    /\ tables \in UNION {[D -> SeqsUpTo(RecordSamples, MaxRecords)] : D \in SUBSET TableNames}
    /\ openable \in BOOLEAN
    /\ extent = TileExtent
    /\ zoom \in 0..MaxZoom
    /\ InitThreads({1})

\* every thread requests the same tile of one dataset
InitConcurrent ==
    /\ InitNoFeature
    /\ InitServer
    /\ layers = <<MkLayer("A", Some("ta"), Some(3857), None, 0, MaxZoom),
                  MkLayer("B", Some("tb"), Some(3857), None, 0, MaxZoom)>>
    /\ tables \in [TableNames -> {<<>>, <<[geom |-> PointInside, fields |-> <<>>]>>,
                                  <<[geom |-> PointInside, fields |-> <<>>],
                                    [geom |-> PointOutside, fields |-> <<>>]>>}]
    /\ openable = TRUE
    /\ extent = TileExtent
    /\ zoom = 0
    /\ InitThreads(Threads)

vars == <<featVars, srvVars, dsVars, retVars>>

SpecGeo == InitGeo /\ [][Geometry]_vars

SpecAttr == InitAttr /\ [][Fid \/ Attributes]_vars

SpecServer == InitRoute /\ [][TileRoute]_vars

SpecRetrieve == InitRetrieve /\ [][Retrieve]_vars

SpecConcurrent == InitConcurrent /\ [][Retrieve]_vars

----------------------------------------------------------------------------
(* Properties of the geometry adapter *)

GeometryCalled == result # NoCall /\ result.method = "geometry"

RequiredChild(kind) ==
    CASE kind = "WkbMultipoint" -> "WkbPoint"
      [] kind = "WkbMultilinestring" -> "WkbLinestring"
      [] kind = "WkbPolygon" -> "WkbLinestring"
      [] kind = "WkbMultipolygon" -> "WkbPolygon"
      [] OTHER -> "none"

VariantOf(kind) ==
    CASE kind = "WkbPoint" -> "Point"
      [] kind = "WkbMultipoint" -> "MultiPoint"
      [] kind = "WkbLinestring" -> "LineString"
      [] kind = "WkbMultilinestring" -> "MultiLineString"
      [] kind = "WkbPolygon" -> "Polygon"
      [] kind = "WkbMultipolygon" -> "MultiPolygon"
      [] OTHER -> "none"

\* the root is one of the six supported kinds and every child, at every
\* depth, is of the kind its parent requires
RECURSIVE Supported(_)
Supported(g) ==
    \/ g.kind \in {"WkbPoint", "WkbLinestring"}
    \/ /\ RequiredChild(g.kind) # "none"
       /\ \A n \in 1..Len(g.subs) :
            g.subs[n].kind = RequiredChild(g.kind) /\ Supported(g.subs[n])

\* the X/Y pairs of a native geometry, in nesting order
RECURSIVE NativeXY(_)
NativeXY(g) ==
    CASE g.kind = "WkbPoint" -> <<g.pts[1][1], g.pts[1][2]>>
      [] g.kind = "WkbLinestring" -> [i \in 1..Len(g.pts) |-> <<g.pts[i][1], g.pts[i][2]>>]
      [] OTHER -> [n \in 1..Len(g.subs) |-> NativeXY(g.subs[n])]

\* the X/Y pairs read back from a converted geometry, in nesting order
XYPoint(p) == <<p.x, p.y>>
XYLine(l) == [i \in 1..Len(l.points) |-> XYPoint(l.points[i])]
XYPolygon(p) == [r \in 1..Len(p.rings) |-> XYLine(p.rings[r])]
ReadBack(g) ==
    CASE g.tag = "Point" -> XYPoint(g.v)
      [] g.tag = "LineString" -> XYLine(g.v)
      [] g.tag = "Polygon" -> XYPolygon(g.v)
      [] g.tag = "MultiPoint" -> [i \in 1..Len(g.v.points) |-> XYPoint(g.v.points[i])]
      [] g.tag = "MultiLineString" -> [i \in 1..Len(g.v.lines) |-> XYLine(g.v.lines[i])]
      [] g.tag = "MultiPolygon" -> [i \in 1..Len(g.v.polygons) |-> XYPolygon(g.v.polygons[i])]

\* every srid tag of a converted geometry: the root's and the nested ones
SridsLine(l) == {l.srid} \cup {l.points[i].srid : i \in 1..Len(l.points)}
SridsPolygon(p) == {p.srid} \cup UNION {SridsLine(p.rings[r]) : r \in 1..Len(p.rings)}
SridsOf(g) ==
    CASE g.tag = "Point" -> {g.v.srid}
      [] g.tag = "LineString" -> SridsLine(g.v)
      [] g.tag = "Polygon" -> SridsPolygon(g.v)
      [] g.tag = "MultiPoint" ->
            {g.v.srid} \cup {g.v.points[i].srid : i \in 1..Len(g.v.points)}
      [] g.tag = "MultiLineString" ->
            {g.v.srid} \cup UNION {SridsLine(g.v.lines[i]) : i \in 1..Len(g.v.lines)}
      [] g.tag = "MultiPolygon" ->
            {g.v.srid} \cup UNION {SridsPolygon(g.v.polygons[i]) : i \in 1..Len(g.v.polygons)}

\* C1: a geometry of an unsupported kind, or with a child of the wrong kind,
\* is answered by geometry() with the error value UnsupportedGeometry; the
\* conversion neither panics nor returns a GeometryType.
C1_Rejected ==
    (GeometryCalled /\ ~Supported(feature.geom))
        => (result.ret.tag = "Err" /\ result.ret.v = "UnsupportedGeometry")

\* C3: for a supported geometry and any srid, to_geo returns the variant of
\* the same kind, whose X/Y pairs read back in nesting order are exactly the
\* source's, and whose root and nested parts all carry the srid passed in.
C3_Fidelity ==
    (GeometryCalled /\ Supported(feature.geom))
        => /\ result.ret.tag = "Ok"
           /\ result.ret.v.tag = VariantOf(feature.geom.kind)
           /\ ReadBack(result.ret.v) = NativeXY(feature.geom)
           /\ SridsOf(result.ret.v) = {layer.srid}

\* a multipolygon of two polygons, the first with an exterior ring and a
\* hole, has been converted with a srid
C3_Witness ==
    /\ GeometryCalled
    /\ Supported(feature.geom)
    /\ feature.geom.kind = "WkbMultipolygon"
    /\ Len(feature.geom.subs) = 2
    /\ Len(feature.geom.subs[1].subs) = 2
    /\ feature.geom.subs[1].subs[1] # feature.geom.subs[1].subs[2]
    /\ layer.srid = Some(3857)
    /\ result.ret.tag = "Ok"

----------------------------------------------------------------------------
(* Properties of fid() and attributes() *)

FidCalled == result # NoCall /\ result.method = "fid"
AttributesCalled == result # NoCall /\ result.method = "attributes"

\* the integer the record holds for the field `name`: a set of at most one
IntegerHeld(f, name) ==
    {f.fields[i].raw.int :
        i \in {k \in 1..Len(f.fields) :
                 /\ f.fields[k].name = name
                 /\ \A j \in 1..(k - 1) : f.fields[j].name # name
                 /\ f.fields[k].raw.type = "OFTInteger"}}

FidIntegers == IF layer.fid_field = None THEN {} ELSE IntegerHeld(feature, layer.fid_field[1])

\* the u64 `u` is the integer v
U64IsInt(u, v) ==
    /\ u[3] = 0 /\ u[4] = 0 /\ u[2] < 32768
    /\ u[1] + LimbBase * u[2] = v

\* the u64 `u` is v + 2^64, for a negative i32 v
U64IsIntPlus2p64(u, v) ==
    /\ u[3] = LimbBase - 1 /\ u[4] = LimbBase - 1 /\ u[2] >= 32768
    /\ (u[1] - LimbBase) + LimbBase * (u[2] - (LimbBase - 1)) = v

\* the i64 `u` is the integer v, for v in the range of i32
I64IsInt(u, v) ==
    IF u[4] < 32768 THEN U64IsInt(u, v) ELSE U64IsIntPlus2p64(u, v)

\* C6 as stated: fid() is Some(v), v the integer held for the configured
\* fid_field, for every integer including the negative ones, and None in
\* every other case.
C6_FidIsValue ==
    FidCalled =>
        IF FidIntegers # {}
        THEN /\ result.ret # None
             /\ \A v \in FidIntegers : U64IsInt(result.ret[1], v)
        ELSE result.ret = None

\* C6 amended: fid() is Some(v) for an integer v >= 0 held for the configured
\* fid_field, Some(v + 2^64) for a negative one, and None in every other case.
C6_FidWraps ==
    FidCalled =>
        IF FidIntegers # {}
        THEN /\ result.ret # None
             /\ \A v \in FidIntegers :
                    IF v >= 0 THEN U64IsInt(result.ret[1], v)
                    ELSE U64IsIntPlus2p64(result.ret[1], v)
        ELSE result.ret = None

\* fid() has been called on a record whose fid field holds -1
C6_Witness ==
    /\ FidCalled
    /\ FidIntegers = {-1}
    /\ result.ret = Some(<<65535, 65535, 65535, 65535>>)

\* the fields whose read succeeds with a mappable type
ReadableFields ==
    {i \in 1..Len(fields_defn) : field(feature, fields_defn[i]).tag = "Ok"}

\* the attribute `a` is the field `name` with the value `fv` read for it
AttrMatches(a, name, fv) ==
    /\ a.key = name
    /\ CASE fv.tag = "StringValue" -> a.value.tag = "String" /\ a.value.v = fv.v
         [] fv.tag = "IntegerValue" -> a.value.tag = "Int" /\ I64IsInt(a.value.v, fv.v)
         [] fv.tag = "RealValue" -> a.value.tag = "Double" /\ a.value.v = fv.v

----------------------------------------------------------------------------
(* Properties of the tile route *)

\* x and y are tile indices of zoom z; an index is below 2^16 whatever it is
InRange(z, x, y) == z >= 16 \/ (x < 2^z /\ y < 2^z)

\* C8: an address out of range for its zoom is rejected before any grid
\* math: service.tile is never invoked with x >= 2^z or y >= 2^z.
C8_AddressValidated ==
    lastTile # None => InRange(lastTile[1].z, lastTile[1].x, lastTile[1].y)

----------------------------------------------------------------------------
(* Properties of retrieve_features *)

LayerIds == 1..Len(layers)

\* the dataset opens and holds the table of layer i
Available(i) ==
    /\ openable
    /\ layers[i].table_name # None
    /\ layers[i].table_name[1] \in DOMAIN tables

RecordsOf(i) == tables[layers[i].table_name[1]]

\* retrieve_features has been entered for layer i of thread t's request
Entered(t, i) == invoked[t][i] # None

\* ... and has returned
Returned(t, i) == Entered(t, i) /\ (li[t] > i \/ pc[t] = "done")

\* ... and was ended by a panic
Aborted(t, i) == Entered(t, i) /\ li[t] = i /\ pc[t] = "panicked"

Terminated(t) == pc[t] \in {"done", "panicked"}

InZoom(l) == l.minzoom <= zoom /\ zoom <= l.maxzoom

RECURSIVE AllCoords(_)
AllCoords(g) ==
    {g.pts[i] : i \in 1..Len(g.pts)} \cup UNION {AllCoords(g.subs[n]) : n \in 1..Len(g.subs)}

\* the bounding box of the geometry meets the extent
Intersects(g, e) ==
    /\ AllCoords(g) # {}
    /\ \E a \in AllCoords(g) : a[1] <= e.maxx /\ a[2] <= e.maxy
    /\ \E a \in AllCoords(g) : a[1] >= e.minx
    /\ \E a \in AllCoords(g) : a[2] >= e.miny
    /\ \E a \in AllCoords(g) : a[1] <= e.maxx
    /\ \E a \in AllCoords(g) : a[2] <= e.maxy

InExtent(f) == Intersects(f.geom, extent)

\* C2: when one layer's table cannot be opened while another layer's can,
\* the failure aborts only the failing layer's retrieval: the request is not
\* aborted, and the call for every other layer still runs.
C2_LayerIsolation ==
    \A t \in Threads : \A a \in LayerIds : \A b \in LayerIds :
        (Terminated(t) /\ ~Available(a) /\ Available(b))
            => ~Aborted(t, a) /\ Entered(t, b)

\* C4: the records passed to the callback by one call of an in-range layer
\* are, in source order, exactly the layer's records that intersect the
\* extent.
C4_ExtentFiltered ==
    \A t \in Threads : \A i \in LayerIds :
        (Returned(t, i) /\ InZoom(layers[i]))
            => invoked[t][i][1] = SelectSeq(RecordsOf(i), InExtent)

\* C5: for a zoom outside the layer's minzoom..maxzoom the callback is never
\* invoked, and the call completes without an error.
C5_ZoomRestricted ==
    \A t \in Threads : \A i \in LayerIds :
        (Entered(t, i) /\ Available(i) /\ ~InZoom(layers[i]))
            => invoked[t][i][1] = <<>> /\ ~Aborted(t, i)

\* C9: when geometry() fails for a record, only that feature is lost: the
\* callback is still invoked for every later record of the layer and the
\* call completes normally.
C9_FeatureIsolation ==
    \A t \in Threads : \A i \in LayerIds :
        (Terminated(t) /\ Entered(t, i) /\ Available(i)
            /\ \E k \in 1..Len(RecordsOf(i)) : ~Supported(RecordsOf(i)[k].geom))
            => /\ ~Aborted(t, i)
               /\ Len(invoked[t][i][1]) = Len(RecordsOf(i))

\* C10: a call that is iterating reads a handle it opened itself during
\* that call, and no other call reads the same handle.
C10_OwnHandle ==
    \A t \in Threads : pc[t] = "features" =>
        /\ dataset[t] \in 1..Len(handles)
        /\ handles[dataset[t]].open
        /\ handles[dataset[t]].opener = t
        /\ handles[dataset[t]].call = li[t]
        /\ \A u \in Threads \ {t} : pc[u] = "features" => dataset[u] # dataset[t]

\* two calls are iterating at once, each part way through its table
C10_Witness ==
    /\ pc[1] = "features" /\ pc[2] = "features"
    /\ li[1] # li[2]
    /\ handles[dataset[1]].cursor > 0
    /\ handles[dataset[2]].cursor > 0

====
